---- MODULE Spec2Model ----
(***************************************************************************)
(* Model of skills/gtk-ui-ux-engineer/examples/application.c: a GTK4 /     *)
(* libadwaita application subclass with four print-only actions, three     *)
(* accelerators, a stylesheet loaded at startup and a window built from    *)
(* window.ui on every activation.                                          *)
(*                                                                         *)
(* Every C function is a sequence of statements (the definitions named     *)
(* after the functions); the actions below execute one statement of the    *)
(* function on top of the call stack.  g_application_run is the only       *)
(* caller of the three virtual functions and of the action callbacks.      *)
(***************************************************************************)
EXTENDS Naturals, Sequences, FiniteSets

\* ---------------------------------------------------------------- bounds
MaxEvents == 1      \* events dispatched by the main loop after the first activation
MaxFiles  == 2      \* longest files array handed to open

\* ---------------------------------------------------------------- inputs
\* files arrays handed to open: the first n files of a command line, with a
\* file that has no local path in first or in second place
FileLists ==
    {<<"a.txt", "http://h/c", "b.txt">>, <<"http://h/c", "a.txt", "b.txt">>}

FileSeqs == {SubSeq(l, 1, n) : l \in FileLists, n \in 0..MaxFiles}

\* content of window.ui: defines example_window / lacks it / cannot be loaded
UiFiles == {"ok", "noobj", "missing"}

\* content of style.css: loads / fails to load
CssFiles == {"ok", "bad"}

VARIABLES
    mainPc,            \* position of main and of g_application_run
    stack,             \* call stack of the handler being run
    uiFile, cssFile,   \* the two external files
    started,           \* the startup handler has returned
    parentStarted,     \* the parent class's startup ran
    actions,           \* entries of the application's action map
    accels,            \* <<detailed action name, accelerator>> bindings
    cssProviders,      \* number of providers constructed
    displayProviders,  \* providers installed on the display, by content
    windows,           \* windows instantiated by builders
    owned,             \* references the code holds, per kind of object
    uaf,               \* an object was used after the code released it
    out, outEv,        \* g_print output and the event each line belongs to
    nEv,               \* events dispatched so far (event ids)
    nLoop,             \* events dispatched by the main loop
    nActivate, nOpen, nAction,
    hist               \* the most recent dispatch and the state it saw

vars == <<mainPc, stack, uiFile, cssFile, started, parentStarted, actions,
          accels, cssProviders, displayProviders, windows, owned, uaf,
          out, outEv, nEv, nLoop, nActivate, nOpen, nAction, hist>>

\* ------------------------------------------------------------ statements
S(op, arg) == [op |-> op, arg |-> arg]

on_new_window_creates ==
    << S("g_print", <<"New window activated">>),
       S("call", "example_app_activate") >>

on_new_window == << S("g_print", <<"New window activated">>) >>

on_preferences == << S("g_print", <<"Preferences activated">>) >>

on_shortcuts == << S("g_print", <<"Keyboard shortcuts activated">>) >>

on_about == << S("g_print", <<"About activated">>) >>

app_entries_short ==
    << [name |-> "new-window",  activate |-> "on_new_window"],
       [name |-> "preferences", activate |-> "on_preferences"],
       [name |-> "shortcuts",   activate |-> "on_shortcuts"] >>

app_entries ==
    << [name |-> "new-window",  activate |-> "on_new_window"],
       [name |-> "preferences", activate |-> "on_preferences"],
       [name |-> "shortcuts",   activate |-> "on_shortcuts"],
       [name |-> "about",       activate |-> "on_about"] >>

load_css_no_install ==
    << S("gtk_css_provider_new", <<>>),
       S("gtk_css_provider_load_from_path", "style.css") >>

load_css ==
    << S("gtk_css_provider_new", <<>>),
       S("gtk_css_provider_load_from_path", "style.css"),
       S("gtk_style_context_add_provider_for_display", <<>>) >>

set_accels_about ==
    << S("set_accels_for_action", <<"app.new-window", {"<Primary>n"}>>),
       S("set_accels_for_action", <<"app.preferences", {"<Primary>comma"}>>),
       S("set_accels_for_action", <<"app.shortcuts", {"<Primary>question"}>>),
       S("set_accels_for_action", <<"app.about", {"<Primary>n"}>>) >>

set_accels ==
    << S("set_accels_for_action", <<"app.new-window", {"<Primary>n"}>>),
       S("set_accels_for_action", <<"app.preferences", {"<Primary>comma"}>>),
       S("set_accels_for_action", <<"app.shortcuts", {"<Primary>question"}>>) >>

example_app_startup_no_accels ==
    << S("chain_up", <<>>),
       S("g_action_map_add_action_entries", app_entries),
       S("call", "load_css"),
       S("g_print", <<"Application started">>) >>

example_app_startup ==
    << S("chain_up", <<>>),
       S("g_action_map_add_action_entries", app_entries),
       S("call", "set_accels"),
       S("call", "load_css"),
       S("g_print", <<"Application started">>) >>

example_app_activate_css ==
    << S("call", "load_css"),
       S("gtk_builder_new_from_file", "window.ui"),
       S("gtk_builder_get_object", "example_window"),
       S("gtk_window_set_application", <<>>),
       S("gtk_window_present", <<>>),
       S("g_object_unref", "builder"),
       S("g_print", <<"Window activated">>) >>

example_app_activate_present_first ==
    << S("gtk_builder_new_from_file", "window.ui"),
       S("gtk_builder_get_object", "example_window"),
       S("gtk_window_present", <<>>),
       S("gtk_window_set_application", <<>>),
       S("g_object_unref", "builder"),
       S("g_print", <<"Window activated">>) >>

example_app_activate ==
    << S("gtk_builder_new_from_file", "window.ui"),
       S("gtk_builder_get_object", "example_window"),
       S("gtk_window_set_application", <<>>),
       S("gtk_window_present", <<>>),
       S("g_object_unref", "builder"),
       S("g_print", <<"Window activated">>) >>

\* for (i = 0; i <= n_files; i++): one iteration too many
example_app_open_off_by_one ==
    << S("for", [exit |-> 6, cmp |-> "<="]),
       S("g_file_get_path", <<>>),
       S("g_print_path", "Opening file: "),
       S("g_free", "path"),
       S("next", 1),
       S("call", "example_app_activate") >>

\* for (i = 0; i < n_files; i++) { get_path; print; free } then activate
example_app_open ==
    << S("for", [exit |-> 6, cmp |-> "<"]),
       S("g_file_get_path", <<>>),
       S("g_print_path", "Opening file: "),
       S("g_free", "path"),
       S("next", 1),
       S("call", "example_app_activate") >>

\* the virtual functions installed by class_init
example_app_class_init ==
    [startup  |-> "example_app_startup",
     activate |-> "example_app_activate",
     open     |-> "example_app_open"]

Code(fn) ==
    CASE fn = "on_new_window"        -> on_new_window
      [] fn = "on_preferences"       -> on_preferences
      [] fn = "on_shortcuts"         -> on_shortcuts
      [] fn = "on_about"             -> on_about
      [] fn = "load_css"             -> load_css
      [] fn = "set_accels"           -> set_accels
      [] fn = "example_app_startup"  -> example_app_startup
      [] fn = "example_app_activate" -> example_app_activate
      [] fn = "example_app_open"     -> example_app_open

\* ------------------------------------------------------- toolkit results
\* g_file_get_path: the local path, or NULL when the file has none
g_file_get_path(f) ==
    CASE f = "a.txt"      -> "/cwd/a.txt"
      [] f = "b.txt"      -> "/cwd/b.txt"
      [] f = "http://h/c" -> "NULL"

\* "%s" of a NULL string
PrintS(p) == IF p = "NULL" THEN "(null)" ELSE p

\* the action a detailed name "app.<name>" refers to
ActionOfDetailed(d) ==
    CASE d = "app.new-window"  -> "new-window"
      [] d = "app.preferences" -> "preferences"
      [] d = "app.shortcuts"   -> "shortcuts"
      [] d = "app.about"       -> "about"

\* ------------------------------------------------------------ call stack
Frame(fn, ev, disp, files) ==
    [fn |-> fn, pc |-> 1, ev |-> ev, disp |-> disp, files |-> files,
     i |-> 0, path |-> "unset", builder |-> "unset", built |-> 0,
     window |-> 0, provider |-> "unset"]

Top == stack[Len(stack)]

Running == mainPc # "aborted" /\ stack # <<>>

AtEnd == Top.pc > Len(Code(Top.fn))

Cur == Code(Top.fn)[Top.pc]

At(op) == Running /\ ~AtEnd /\ Cur.op = op

SetTop(f) == stack' = [stack EXCEPT ![Len(stack)] = f]

Step == [Top EXCEPT !.pc = @ + 1]

\* the main loop dispatches only when no handler is running
LoopIdle_reentrant == TRUE

LoopIdle == stack = <<>>

Snapshot(what, fn, files) ==
    [what |-> what, fn |-> fn, files |-> files, out |-> out, windows |-> windows,
     actions |-> actions, accels |-> accels,
     displayProviders |-> displayProviders, cssProviders |-> cssProviders]

Dispatch(what, fn, files) ==
    /\ stack' = Append(stack, Frame(fn, nEv + 1, TRUE, files))
    /\ nEv' = nEv + 1
    /\ hist' = Snapshot(what, fn, files)

Init ==
    /\ mainPc = "new"
    /\ stack = <<>>
    /\ uiFile \in UiFiles
    /\ cssFile \in CssFiles
    /\ started = FALSE
    /\ parentStarted = FALSE
    /\ actions = {}
    /\ accels = {}
    /\ cssProviders = 0
    /\ displayProviders = <<>>
    /\ windows = <<>>
    /\ owned = [app |-> 0, builder |-> 0, provider |-> 0, path |-> 0]
    /\ uaf = FALSE
    /\ out = <<>>
    /\ outEv = <<>>
    /\ nEv = 0
    /\ nLoop = 0
    /\ nActivate = 0
    /\ nOpen = 0
    /\ nAction = 0
    /\ hist = Snapshot("none", "none", <<>>)

\* ------------------------------------------------------------------ main
\* app = g_object_new(EXAMPLE_TYPE_APP, ...)
MainNew ==
    /\ mainPc = "new"
    /\ mainPc' = "register"
    /\ owned' = [owned EXCEPT !.app = @ + 1]
    /\ UNCHANGED <<stack, uiFile, cssFile, started, parentStarted, actions,
                   accels, cssProviders, displayProviders, windows, uaf,
                   out, outEv, nEv, nLoop, nActivate, nOpen, nAction, hist>>

\* g_application_run, primary instance: registration emits startup
RunStartup ==
    /\ mainPc = "register"
    /\ LoopIdle
    /\ mainPc' = "cmdline"
    /\ Dispatch("startup", example_app_class_init.startup, <<>>)
    /\ UNCHANGED <<uiFile, cssFile, started, parentStarted, actions, accels,
                   cssProviders, displayProviders, windows, owned, uaf,
                   out, outEv, nLoop, nActivate, nOpen, nAction>>

\* g_application_run when no handler runs in this process (the request is
\* forwarded to an already running primary instance, or --help)
RunRemote ==
    /\ mainPc = "register"
    /\ LoopIdle
    /\ mainPc' = "returned"
    /\ UNCHANGED <<stack, uiFile, cssFile, started, parentStarted, actions,
                   accels, cssProviders, displayProviders, windows, owned,
                   uaf, out, outEv, nEv, nLoop, nActivate, nOpen, nAction,
                   hist>>

\* g_application_run, after startup: no file arguments activate, file
\* arguments open (G_APPLICATION_HANDLES_OPEN)
RunCommandLine ==
    /\ mainPc = "cmdline"
    /\ LoopIdle
    /\ mainPc' = "loop"
    /\ \E files \in FileSeqs :
         IF files = <<>>
         THEN /\ Dispatch("activate", example_app_class_init.activate, <<>>)
              /\ nActivate' = nActivate + 1
              /\ nOpen' = nOpen
         ELSE /\ Dispatch("open", example_app_class_init.open, files)
              /\ nOpen' = nOpen + 1
              /\ nActivate' = nActivate
    /\ UNCHANGED <<uiFile, cssFile, started, parentStarted, actions, accels,
                   cssProviders, displayProviders, windows, owned, uaf,
                   out, outEv, nLoop, nAction>>

\* the main loop delivers a later activation
LoopActivate ==
    /\ mainPc = "loop"
    /\ LoopIdle
    /\ nLoop < MaxEvents
    /\ Dispatch("activate", example_app_class_init.activate, <<>>)
    /\ nActivate' = nActivate + 1
    /\ nLoop' = nLoop + 1
    /\ UNCHANGED <<mainPc, uiFile, cssFile, started, parentStarted, actions,
                   accels, cssProviders, displayProviders, windows, owned,
                   uaf, out, outEv, nOpen, nAction>>

\* the main loop delivers a later open request, of any number of files
LoopOpen ==
    /\ mainPc = "loop"
    /\ LoopIdle
    /\ nLoop < MaxEvents
    /\ \E files \in FileSeqs : Dispatch("open", example_app_class_init.open, files)
    /\ nOpen' = nOpen + 1
    /\ nLoop' = nLoop + 1
    /\ UNCHANGED <<mainPc, uiFile, cssFile, started, parentStarted, actions,
                   accels, cssProviders, displayProviders, windows, owned,
                   uaf, out, outEv, nActivate, nAction>>

\* the main loop activates a registered action (accelerator, menu, D-Bus)
LoopAction ==
    /\ mainPc = "loop"
    /\ LoopIdle
    /\ nLoop < MaxEvents
    /\ \E e \in actions : Dispatch(e.name, e.activate, <<>>)
    /\ nAction' = nAction + 1
    /\ nLoop' = nLoop + 1
    /\ UNCHANGED <<mainPc, uiFile, cssFile, started, parentStarted, actions,
                   accels, cssProviders, displayProviders, windows, owned,
                   uaf, out, outEv, nActivate, nOpen>>

\* g_application_run returns
RunReturn ==
    /\ mainPc = "loop"
    /\ LoopIdle
    /\ mainPc' = "returned"
    /\ UNCHANGED <<stack, uiFile, cssFile, started, parentStarted, actions,
                   accels, cssProviders, displayProviders, windows, owned,
                   uaf, out, outEv, nEv, nLoop, nActivate, nOpen, nAction,
                   hist>>

\* g_object_unref(app); return status
MainUnref ==
    /\ mainPc = "returned"
    /\ mainPc' = "exit"
    /\ owned' = [owned EXCEPT !.app = @ - 1]
    /\ UNCHANGED <<stack, uiFile, cssFile, started, parentStarted, actions,
                   accels, cssProviders, displayProviders, windows, uaf,
                   out, outEv, nEv, nLoop, nActivate, nOpen, nAction, hist>>

\* ------------------------------------------------------------ statements
\* a function returns to its caller, a handler to g_application_run
Return ==
    /\ Running
    /\ AtEnd
    /\ stack' = SubSeq(stack, 1, Len(stack) - 1)
    /\ started' = (started \/ (Top.disp /\ Top.fn = example_app_class_init.startup))
    /\ UNCHANGED <<mainPc, uiFile, cssFile, parentStarted, actions, accels,
                   cssProviders, displayProviders, windows, owned, uaf,
                   out, outEv, nEv, nLoop, nActivate, nOpen, nAction, hist>>

\* a direct call: set_accels(app), load_css(app), example_app_activate(gapp)
Call ==
    /\ At("call")
    /\ stack' = Append([stack EXCEPT ![Len(stack)] = Step],
                       Frame(Cur.arg, Top.ev, FALSE, <<>>))
    /\ UNCHANGED <<mainPc, uiFile, cssFile, started, parentStarted, actions,
                   accels, cssProviders, displayProviders, windows, owned,
                   uaf, out, outEv, nEv, nLoop, nActivate, nOpen, nAction,
                   hist>>

\* ADW_APPLICATION_CLASS(example_app_parent_class)->startup(gapp)
ChainUp ==
    /\ At("chain_up")
    /\ parentStarted' = TRUE
    /\ SetTop(Step)
    /\ UNCHANGED <<mainPc, uiFile, cssFile, started, actions, accels,
                   cssProviders, displayProviders, windows, owned, uaf,
                   out, outEv, nEv, nLoop, nActivate, nOpen, nAction, hist>>

\* g_action_map_add_action_entries: an entry replaces one of the same name
AddActionEntries ==
    /\ At("g_action_map_add_action_entries")
    /\ LET new == {Cur.arg[k] : k \in 1..Len(Cur.arg)}
       IN  actions' = {e \in actions : \A n \in new : n.name # e.name} \cup new
    /\ SetTop(Step)
    /\ UNCHANGED <<mainPc, uiFile, cssFile, started, parentStarted, accels,
                   cssProviders, displayProviders, windows, owned, uaf,
                   out, outEv, nEv, nLoop, nActivate, nOpen, nAction, hist>>

\* gtk_application_set_accels_for_action: replaces the action's accelerators
SetAccelsForAction ==
    /\ At("set_accels_for_action")
    /\ accels' = {b \in accels : b[1] # Cur.arg[1]}
                 \cup {<<Cur.arg[1], a>> : a \in Cur.arg[2]}
    /\ SetTop(Step)
    /\ UNCHANGED <<mainPc, uiFile, cssFile, started, parentStarted, actions,
                   cssProviders, displayProviders, windows, owned, uaf,
                   out, outEv, nEv, nLoop, nActivate, nOpen, nAction, hist>>

\* provider = gtk_css_provider_new(): the caller owns the new reference
CssProviderNew ==
    /\ At("gtk_css_provider_new")
    /\ cssProviders' = cssProviders + 1
    /\ owned' = [owned EXCEPT !.provider = @ + 1]
    /\ SetTop([Step EXCEPT !.provider = "empty"])
    /\ UNCHANGED <<mainPc, uiFile, cssFile, started, parentStarted, actions,
                   accels, displayProviders, windows, uaf, out, outEv, nEv,
                   nLoop, nActivate, nOpen, nAction, hist>>

\* gtk_css_provider_load_from_path(provider, "style.css", NULL): a failed
\* load leaves the provider empty and is reported to nobody
CssLoadFromPath ==
    /\ At("gtk_css_provider_load_from_path")
    /\ SetTop([Step EXCEPT !.provider = IF cssFile = "ok" THEN "rules" ELSE "empty"])
    /\ uaf' = (uaf \/ Top.provider \notin {"empty", "rules"})
    /\ UNCHANGED <<mainPc, uiFile, cssFile, started, parentStarted, actions,
                   accels, cssProviders, displayProviders, windows, owned,
                   out, outEv, nEv, nLoop, nActivate, nOpen, nAction, hist>>

\* gtk_style_context_add_provider_for_display: the display takes its own
\* reference, the caller's is untouched
AddProviderForDisplay ==
    /\ At("gtk_style_context_add_provider_for_display")
    /\ displayProviders' = Append(displayProviders, Top.provider)
    /\ uaf' = (uaf \/ Top.provider \notin {"empty", "rules"})
    /\ SetTop(Step)
    /\ UNCHANGED <<mainPc, uiFile, cssFile, started, parentStarted, actions,
                   accels, cssProviders, windows, owned, out, outEv, nEv,
                   nLoop, nActivate, nOpen, nAction, hist>>

\* g_print of a fixed message
GPrint ==
    /\ At("g_print")
    /\ out' = Append(out, Cur.arg)
    /\ outEv' = Append(outEv, Top.ev)
    /\ SetTop(Step)
    /\ UNCHANGED <<mainPc, uiFile, cssFile, started, parentStarted, actions,
                   accels, cssProviders, displayProviders, windows, owned,
                   uaf, nEv, nLoop, nActivate, nOpen, nAction, hist>>

\* builder = gtk_builder_new_from_file("window.ui"): aborts the program when
\* the file cannot be loaded, otherwise instantiates the objects it describes
\* and hands the caller a reference to the builder
BuilderNewFromFile ==
    /\ At("gtk_builder_new_from_file")
    /\ IF uiFile = "missing"
       THEN /\ mainPc' = "aborted"
            /\ UNCHANGED <<stack, windows, owned>>
       ELSE /\ mainPc' = mainPc
            /\ owned' = [owned EXCEPT !.builder = @ + 1]
            /\ IF uiFile = "ok"
               THEN /\ windows' = Append(windows,
                          [ev |-> Top.ev, attached |-> FALSE,
                           presented |-> FALSE, builderReleased |-> FALSE])
                    /\ SetTop([Step EXCEPT !.builder = "live",
                                           !.built = Len(windows) + 1])
               ELSE /\ windows' = windows
                    /\ SetTop([Step EXCEPT !.builder = "live", !.built = 0])
    /\ UNCHANGED <<uiFile, cssFile, started, parentStarted, actions, accels,
                   cssProviders, displayProviders, uaf, out, outEv, nEv,
                   nLoop, nActivate, nOpen, nAction, hist>>

\* window = gtk_builder_get_object(builder, "example_window"): a borrowed
\* pointer, NULL (0) when the description has no such object
BuilderGetObject ==
    /\ At("gtk_builder_get_object")
    /\ SetTop([Step EXCEPT !.window = Top.built])
    /\ uaf' = (uaf \/ Top.builder # "live")
    /\ UNCHANGED <<mainPc, uiFile, cssFile, started, parentStarted, actions,
                   accels, cssProviders, displayProviders, windows, owned,
                   out, outEv, nEv, nLoop, nActivate, nOpen, nAction, hist>>

\* gtk_window_set_application(GTK_WINDOW(window), app): returns at once when
\* window is not a GtkWindow
WindowSetApplication ==
    /\ At("gtk_window_set_application")
    /\ windows' = IF Top.window = 0 THEN windows
                  ELSE [windows EXCEPT ![Top.window].attached = TRUE]
    /\ SetTop(Step)
    /\ UNCHANGED <<mainPc, uiFile, cssFile, started, parentStarted, actions,
                   accels, cssProviders, displayProviders, owned, uaf, out,
                   outEv, nEv, nLoop, nActivate, nOpen, nAction, hist>>

\* gtk_window_present(GTK_WINDOW(window))
WindowPresent ==
    /\ At("gtk_window_present")
    /\ windows' = IF Top.window = 0 THEN windows
                  ELSE [windows EXCEPT ![Top.window].presented = TRUE]
    /\ SetTop(Step)
    /\ UNCHANGED <<mainPc, uiFile, cssFile, started, parentStarted, actions,
                   accels, cssProviders, displayProviders, owned, uaf, out,
                   outEv, nEv, nLoop, nActivate, nOpen, nAction, hist>>

\* g_object_unref(builder)
ObjectUnref ==
    /\ At("g_object_unref")
    /\ owned' = [owned EXCEPT !.builder = @ - 1]
    /\ uaf' = (uaf \/ Top.builder # "live")
    /\ windows' = IF Top.built = 0 THEN windows
                  ELSE [windows EXCEPT ![Top.built].builderReleased = TRUE]
    /\ SetTop([Step EXCEPT !.builder = "released"])
    /\ UNCHANGED <<mainPc, uiFile, cssFile, started, parentStarted, actions,
                   accels, cssProviders, displayProviders, out, outEv, nEv,
                   nLoop, nActivate, nOpen, nAction, hist>>

\* for (...; i < n_files; ...): enter the body or leave the loop
For ==
    /\ At("for")
    /\ LET n_files == Len(Top.files)
           more == IF Cur.arg.cmp = "<" THEN Top.i < n_files
                                       ELSE Top.i <= n_files
       IN  SetTop([Top EXCEPT !.pc = IF more THEN @ + 1 ELSE Cur.arg.exit])
    /\ UNCHANGED <<mainPc, uiFile, cssFile, started, parentStarted, actions,
                   accels, cssProviders, displayProviders, windows, owned,
                   uaf, out, outEv, nEv, nLoop, nActivate, nOpen, nAction,
                   hist>>

\* path = g_file_get_path(files[i]): a new string the caller must free, or
\* NULL
FileGetPath ==
    /\ At("g_file_get_path")
    /\ LET p == IF Top.i < Len(Top.files)
                THEN g_file_get_path(Top.files[Top.i + 1]) ELSE "NULL"
       IN  /\ SetTop([Step EXCEPT !.path = p])
           /\ owned' = [owned EXCEPT !.path = IF p = "NULL" THEN @ ELSE @ + 1]
    /\ UNCHANGED <<mainPc, uiFile, cssFile, started, parentStarted, actions,
                   accels, cssProviders, displayProviders, windows, uaf,
                   out, outEv, nEv, nLoop, nActivate, nOpen, nAction, hist>>

\* g_print("Opening file: %s\n", path)
GPrintPath ==
    /\ At("g_print_path")
    /\ out' = Append(out, <<Cur.arg, PrintS(Top.path)>>)
    /\ outEv' = Append(outEv, Top.ev)
    /\ uaf' = (uaf \/ Top.path \in {"unset", "freed"})
    /\ SetTop(Step)
    /\ UNCHANGED <<mainPc, uiFile, cssFile, started, parentStarted, actions,
                   accels, cssProviders, displayProviders, windows, owned,
                   nEv, nLoop, nActivate, nOpen, nAction, hist>>

\* g_free(path): nothing to release when path is NULL
GFree ==
    /\ At("g_free")
    /\ owned' = [owned EXCEPT !.path = IF Top.path = "NULL" THEN @ ELSE @ - 1]
    /\ uaf' = (uaf \/ Top.path \in {"unset", "freed"})
    /\ SetTop([Step EXCEPT !.path = IF Top.path = "NULL" THEN "NULL" ELSE "freed"])
    /\ UNCHANGED <<mainPc, uiFile, cssFile, started, parentStarted, actions,
                   accels, cssProviders, displayProviders, windows, out,
                   outEv, nEv, nLoop, nActivate, nOpen, nAction, hist>>

\* i++ and back to the loop test
ForNext ==
    /\ At("next")
    /\ SetTop([Top EXCEPT !.pc = Cur.arg, !.i = @ + 1])
    /\ UNCHANGED <<mainPc, uiFile, cssFile, started, parentStarted, actions,
                   accels, cssProviders, displayProviders, windows, owned,
                   uaf, out, outEv, nEv, nLoop, nActivate, nOpen, nAction,
                   hist>>

\* one statement of the running handler
Stmt ==
    \/ Return
    \/ Call
    \/ ChainUp
    \/ AddActionEntries
    \/ SetAccelsForAction
    \/ CssProviderNew
    \/ CssLoadFromPath
    \/ AddProviderForDisplay
    \/ GPrint
    \/ BuilderNewFromFile
    \/ BuilderGetObject
    \/ WindowSetApplication
    \/ WindowPresent
    \/ ObjectUnref
    \/ For
    \/ FileGetPath
    \/ GPrintPath
    \/ GFree
    \/ ForNext

Next ==
    \/ MainNew
    \/ RunStartup
    \/ RunRemote
    \/ RunCommandLine
    \/ LoopActivate
    \/ LoopOpen
    \/ LoopAction
    \/ RunReturn
    \/ MainUnref
    \/ Stmt

Spec == Init /\ [][Next]_vars

\* a handler that was entered keeps executing: C has no scheduler that
\* could suspend it
LiveSpec == Spec /\ WF_vars(Stmt)

\* ------------------------------------------------------------ properties
Quiescent == stack = <<>>

ActionNames == {e.name : e \in actions}

FourActions == {"new-window", "preferences", "shortcuts", "about"}

ThreeAccels ==
    {<<"app.new-window", "<Primary>n">>,
     <<"app.preferences", "<Primary>comma">>,
     <<"app.shortcuts", "<Primary>question">>}

Attached == {k \in DOMAIN windows : windows[k].attached}

\* C1: once startup has completed the registered actions are exactly
\* new-window, preferences, shortcuts and about, one entry each, whatever
\* activate, open and action events follow.
C1_ActionsFixed ==
    started => (ActionNames = FourActions /\ Cardinality(actions) = 4)

C1_Witness ==
    /\ started /\ Quiescent /\ nOpen >= 1 /\ nAction >= 1
    /\ ActionNames = FourActions

\* what startup leaves behind
StartupEffects ==
    /\ parentStarted
    /\ ActionNames = FourActions
    /\ accels = ThreeAccels
    /\ Len(displayProviders) >= 1
    /\ Len(out) >= 1
    /\ out[1] = <<"Application started">>

\* C2: startup has finished, with all its effects, before any activate, open
\* or action handler is entered; handlers run only inside g_application_run,
\* none after it has returned.
C2_LifecycleOrder ==
    /\ (nActivate + nOpen + nAction > 0) => (started /\ StartupEffects)
    /\ (stack # <<>>) => mainPc \in {"cmdline", "loop", "aborted"}
    /\ (mainPc \in {"new", "register", "returned", "exit"}) => Quiescent

C2_Witness ==
    /\ mainPc = "exit" /\ started
    /\ nOpen >= 1 /\ nAction >= 1

\* C3: whenever no handler is running the code holds no reference of its own
\* to a builder, a provider or a path string, after main's unref none to the
\* application, and nothing was used after its release.
C3_NoOutstandingReference ==
    Quiescent =>
        /\ owned.builder = 0
        /\ owned.provider = 0
        /\ owned.path = 0
        /\ (mainPc = "exit" => owned.app = 0)
        /\ ~uaf

\* C4: a stylesheet that fails to load changes nothing in startup but the
\* provider's content: startup completes, the empty provider is installed,
\* "Application started" is printed, actions and accelerators are the usual.
C4_CssFailureIgnored ==
    (cssFile = "bad") =>
        /\ (mainPc = "aborted" => started)
        /\ started =>
             /\ displayProviders = <<"empty">>
             /\ out[1] = <<"Application started">>
             /\ ActionNames = FourActions
             /\ accels = ThreeAccels

C4_Witness ==
    /\ cssFile = "bad" /\ started /\ mainPc = "loop"
    /\ displayProviders = <<"empty">>

\* the message that belongs to each action
ActionMessage(name) ==
    CASE name = "new-window"  -> <<"New window activated">>
      [] name = "preferences" -> <<"Preferences activated">>
      [] name = "shortcuts"   -> <<"Keyboard shortcuts activated">>
      [] name = "about"       -> <<"About activated">>

\* C5: from the activation of an action until the next event, windows,
\* actions, accelerators and style providers are what they were when the
\* action was activated, and once the callback has returned the output has
\* grown by exactly the action's own message; new-window creates no window.
C5_ActionOnlyPrints ==
    (hist.what \in FourActions) =>
        /\ windows = hist.windows
        /\ actions = hist.actions
        /\ accels = hist.accels
        /\ displayProviders = hist.displayProviders
        /\ cssProviders = hist.cssProviders
        /\ out \in {hist.out, Append(hist.out, ActionMessage(hist.what))}
        /\ Quiescent => out = Append(hist.out, ActionMessage(hist.what))

C5_Witness ==
    /\ hist.what = "new-window" /\ Quiescent
    /\ uiFile = "ok"
    /\ out = Append(hist.out, <<"New window activated">>)
    /\ Len(windows) = 1

\* C6: the code constructs and installs a style provider in startup and
\* nowhere else: never more than one, and exactly one from the end of
\* startup on.
C6_OneProvider ==
    /\ cssProviders <= 1
    /\ Len(displayProviders) <= 1
    /\ started => (cssProviders = 1 /\ Len(displayProviders) = 1)

C6_Witness ==
    /\ started /\ Quiescent /\ nActivate >= 1 /\ nOpen >= 1
    /\ cssProviders = 1 /\ Len(displayProviders) = 1

\* the lines an open of the given files prints before it activates
OpeningLines(files) ==
    [k \in 1..Len(files) |-> <<"Opening file: ", PrintS(g_file_get_path(files[k]))>>]

\* C7 as stated: a completed open of n files has printed the n file lines
\* in order, then "Window activated", and has created exactly one window.
C7_OpenOneWindow ==
    (hist.what = "open" /\ Quiescent) =>
        /\ out = hist.out \o OpeningLines(hist.files) \o << <<"Window activated">> >>
        /\ Len(windows) = Len(hist.windows) + 1

\* C7 amended, state part: the n file lines in order, then one activation;
\* that activation creates one window when window.ui defines example_window,
\* none when it does not, and aborts the program when window.ui cannot be
\* loaded.
OpenResult ==
    (hist.what = "open") =>
        /\ Quiescent =>
             /\ out = hist.out \o OpeningLines(hist.files)
                               \o << <<"Window activated">> >>
             /\ uiFile # "missing"
             /\ Len(windows) = Len(hist.windows) + (IF uiFile = "ok" THEN 1 ELSE 0)
        /\ (mainPc = "aborted") =>
             /\ uiFile = "missing"
             /\ out = hist.out \o OpeningLines(hist.files)
             /\ windows = hist.windows

\* C7 amended: every open invocation ends (returns, or aborts the program in
\* its activation), with the result above.
C7_Open ==
    /\ []OpenResult
    /\ (hist.what = "open" /\ ~Quiescent) ~> (Quiescent \/ mainPc = "aborted")

C7_Witness ==
    /\ hist.what = "open" /\ Quiescent /\ uiFile = "ok"
    /\ hist.files = <<>>
    /\ Len(windows) = 2
    /\ \E k \in DOMAIN out : out[k] = <<"Opening file: ", "(null)">>

\* C8: every binding names a registered action, no accelerator is bound to
\* two actions, about has none, and after startup the bindings are the three
\* of set_accels.
C8_Accels ==
    /\ \A b \in accels : ActionOfDetailed(b[1]) \in ActionNames
    /\ \A b, c \in accels : b[2] = c[2] => b[1] = c[1]
    /\ \A b \in accels : b[1] # "app.about"
    /\ started => accels = ThreeAccels

C8_Witness ==
    /\ started /\ mainPc = "loop" /\ nAction >= 1
    /\ accels = ThreeAccels

\* C9 as stated: between handlers the windows created and attached number
\* the activate invocations plus the open invocations.
C9_WindowPerInvocation ==
    Quiescent => Cardinality(Attached) = nActivate + nOpen

\* C9 amended: when window.ui defines example_window, between handlers the
\* windows number the activate plus open invocations, each made by its own
\* invocation and attached; when it does not, no window exists; a window is
\* attached before it is presented and before its builder is released.
C9_Windows ==
    /\ (Quiescent /\ uiFile = "ok") =>
          /\ Len(windows) = nActivate + nOpen
          /\ Attached = DOMAIN windows
    /\ (uiFile # "ok") => windows = <<>>
    /\ \A j, k \in DOMAIN windows : windows[j].ev = windows[k].ev => j = k
    /\ \A k \in DOMAIN windows :
          (windows[k].presented \/ windows[k].builderReleased) => windows[k].attached

C9_Witness ==
    /\ Quiescent /\ uiFile = "ok"
    /\ nActivate >= 1 /\ nOpen >= 1
    /\ Len(windows) = 2 /\ Attached = {1, 2}
    /\ \A k \in DOMAIN windows : windows[k].presented /\ windows[k].builderReleased

\* C10: at most one handler is in progress, everything on the stack belongs
\* to it, and the output lines come in the order of the events (so the lines
\* of one event are contiguous); the n + 1 lines of a completed open are the
\* last n + 1 lines of the output.
C10_RunToCompletion ==
    /\ Cardinality({k \in DOMAIN stack : stack[k].disp}) <= 1
    /\ \A k \in DOMAIN stack : stack[k].ev = nEv
    /\ Len(outEv) = Len(out)
    /\ \A k \in DOMAIN outEv : k > 1 => outEv[k - 1] <= outEv[k]
    /\ (hist.what = "open" /\ Quiescent) =>
          \A k \in DOMAIN outEv :
             (outEv[k] = nEv) <=> (k > Len(out) - (Len(hist.files) + 1))

C10_Witness ==
    /\ hist.what = "open" /\ Quiescent
    /\ Len(hist.files) = 2 /\ nLoop = 1 /\ nAction = 0 /\ nEv = 3
    /\ outEv[Len(outEv)] = nEv /\ outEv[Len(outEv) - 2] = nEv
====
